---- MODULE Spec2Model ----
(***************************************************************************)
(* Model of wardenclyffe's request dispatcher (handle_request) and socket  *)
(* bridge (handle_websocket), src/src/server.rs.                           *)
(*                                                                         *)
(* Strings are sequences of byte values, so that case folding, splitting,  *)
(* UTF-8 validation and path formatting are computed as the code computes  *)
(* them.                                                                   *)
(***************************************************************************)
EXTENDS Integers, Sequences, FiniteSets, TLC

(***************************************************************************)
(* Bounds                                                                  *)
(***************************************************************************)
\* messages one client sends on one WebSocket, when one connection is open
MaxMsgs == 2
\* read calls one outbound pump issues, when one connection is open
MaxReads == 2
\* the same two limits for the first of two connections open at once
PairMsgs == 1
PairReads == 1
\* reads carried by one positive batch, with one connection and with two
MaxBatch == 2
PairBatch == 1

Conns == {1, 2}

(***************************************************************************)
(* Byte strings                                                            *)
(***************************************************************************)
Slash == 47
Space == 32
Comma == 44
Tab == 9
Star == 42

S_Upgrade == <<85, 112, 103, 114, 97, 100, 101>>
S_upgrade == <<117, 112, 103, 114, 97, 100, 101>>
S_UPGRADE == <<85, 80, 71, 82, 65, 68, 69>>
S_websocket == <<119, 101, 98, 115, 111, 99, 107, 101, 116>>
S_WebSocket == <<87, 101, 98, 83, 111, 99, 107, 101, 116>>
S_13 == <<49, 51>>
S_12 == <<49, 50>>
S_index_html == <<105, 110, 100, 101, 120, 46, 104, 116, 109, 108>>
S_BadRequest == <<66, 97, 100, 32, 114, 101, 113, 117, 101, 115, 116>>
S_FileNotFound == <<70, 105, 108, 101, 32, 110, 111, 116, 32, 102, 111, 117, 110, 100, 58, 32>>
S_keep == <<107, 101, 101, 112>>
S_foo == <<102, 111, 111>>
\* the GUID of RFC 6455, abbreviated to its first group
WS_GUID == <<50, 53, 56, 69, 65, 70, 65, 53>>

\* Option<T>: None is the empty sequence, Some(x) the one-element sequence <<x>>
None == <<>>
Some(x) == <<x>>
IsSome(o) == o # <<>>
Unwrap(o) == o[1]

\* u8::to_ascii_lowercase, used by eq_ignore_ascii_case
ToAsciiLower(b) == IF b >= 65 /\ b <= 90 THEN b + 32 ELSE b

\* str::eq_ignore_ascii_case
EqIgnoreAsciiCase(a, b) ==
  /\ Len(a) = Len(b)
  /\ \A i \in 1..Len(a) : ToAsciiLower(a[i]) = ToAsciiLower(b[i])

\* HeaderValue::to_str: Some only when every byte is visible ASCII or a tab
ToStr(h) ==
  IF \A i \in 1..Len(h) : h[i] = Tab \/ (h[i] >= 32 /\ h[i] < 127) THEN Some(h) ELSE None

\* str::split(|c| c == ' ' || c == ','): the pieces between delimiters,
\* empty pieces included
RECURSIVE SplitFrom(_, _, _)
SplitFrom(s, i, acc) ==
  IF i > Len(s) THEN <<acc>>
  ELSE IF s[i] = Space \/ s[i] = Comma THEN <<acc>> \o SplitFrom(s, i + 1, <<>>)
  ELSE SplitFrom(s, i + 1, Append(acc, s[i]))

Split(s) == SplitFrom(s, 1, <<>>)

\* HeaderMap::get: the first value stored under the name, if any
Get(values) == IF values = <<>> THEN None ELSE Some(values[1])

\* tungstenite's derive_accept_key: base64(sha1(key ++ GUID)), kept symbolic
derive_accept_key(k) == [enc |-> "base64", digest |-> [alg |-> "sha1", input |-> k \o WS_GUID]]

(***************************************************************************)
(* Static content                                                          *)
(***************************************************************************)
P_foo_slash == S_foo \o <<Slash>>
P_foo_index == S_foo \o <<Slash>> \o S_index_html

\* bytes of the files a content source may hold
B_idx == <<1>>
B_foo == <<2>>
B_fooidx == <<3>>

\* the content sources: each maps the relative paths of its files to bytes
Contents == {
  {},
  {<<S_index_html, B_idx>>},
  {<<S_index_html, B_idx>>, <<P_foo_index, B_fooidx>>},
  {<<S_foo, B_foo>>, <<P_foo_index, B_fooidx>>} }

\* get_http_content: the bytes stored under exactly this path
get_http_content(http_content, path) ==
  IF \E f \in http_content : f[1] = path
  THEN Some((CHOOSE f \in http_content : f[1] = path)[2])
  ELSE None

\* the loop of lines 206-208: drop every trailing slash
RECURSIVE StripTrailing(_)
StripTrailing(p) ==
  IF Len(p) > 0 /\ p[Len(p)] = Slash THEN StripTrailing(SubSeq(p, 1, Len(p) - 1)) ELSE p

StartsWithSlash_OrEmpty(p) == Len(p) = 0 \/ p[1] = Slash

\* str::starts_with('/')
StartsWithSlash(p) == Len(p) > 0 /\ p[1] = Slash

\* the separator left out
IndexPath_NoSeparator(path) == path \o S_index_html

\* format!("{}/{}", path, "index.html")
IndexPath(path) == path \o <<Slash>> \o S_index_html

(***************************************************************************)
(* Requests and responses                                                  *)
(***************************************************************************)
HTTP_10 == 10
HTTP_11 == 11
HTTP_2 == 20

Methods == {"GET", "POST"}
Versions == {HTTP_10, HTTP_11, HTTP_2}

\* values of the Connection header lines of a request
ConnectionHeaders == {
  <<>>,
  <<S_Upgrade>>,
  <<S_UPGRADE>>,
  <<S_keep \o <<Comma, Space>> \o S_upgrade>>,
  <<S_keep \o <<Comma>> \o S_Upgrade \o <<Space>> >>,
  <<S_keep>>,
  <<S_Upgrade \o <<115>> >>,
  <<S_keep \o <<Tab>> \o S_Upgrade>>,
  <<S_keep \o <<45>> \o S_Upgrade>>,
  <<<<233, Comma>> \o S_Upgrade>>,
  <<S_keep, S_Upgrade>> }

UpgradeHeaders == { <<>>, <<S_websocket>>, <<S_WebSocket>>, <<S_websocket \o <<115>> >>, <<S_foo, S_websocket>> }

VersionHeaders == { <<>>, <<S_13>>, <<S_12>>, <<S_12, S_13>> }

KeyHeaders == { <<>>, <<<<65>>>>, <<<<66>>, <<65>>>> }

Paths == { <<Slash>>, <<Slash>> \o S_foo, <<Slash>> \o P_foo_slash, <<Slash>> \o S_index_html,
           <<Star>>, <<>>, <<Slash, Slash>> }

Requests == [method : Methods, version : Versions, connection : ConnectionHeaders,
             upgrade : UpgradeHeaders, ws_version : VersionHeaders, key : KeyHeaders,
             path : Paths]

\* lines 146-153
ConnectionHasUpgrade(req) ==
  LET h == Get(req.connection) IN
  IF ~IsSome(h) THEN FALSE
  ELSE IF ~IsSome(ToStr(Unwrap(h))) THEN FALSE
  ELSE LET parts == Split(Unwrap(ToStr(Unwrap(h))))
       IN \E k \in 1..Len(parts) : EqIgnoreAsciiCase(parts[k], S_Upgrade)

\* lines 154-158
UpgradeIsWebsocket(req) ==
  LET h == Get(req.upgrade) IN
  IF ~IsSome(h) THEN FALSE
  ELSE IF ~IsSome(ToStr(Unwrap(h))) THEN FALSE
  ELSE EqIgnoreAsciiCase(Unwrap(ToStr(Unwrap(h))), S_websocket)

\* line 159
VersionIs13(req) == IsSome(Get(req.ws_version)) /\ Unwrap(Get(req.ws_version)) = S_13

\* the condition of lines 144-160
IsUpgrade(req) ==
  /\ req.method = "GET"
  /\ req.version >= HTTP_11
  /\ ConnectionHasUpgrade(req)
  /\ UpgradeIsWebsocket(req)
  /\ VersionIs13(req)
  /\ IsSome(Get(req.key))

\* lines 179-187
UpgradeResponse(req) ==
  [kind |-> "Response", status |-> 101, version |-> req.version, connection |-> Some(S_Upgrade),
   upgrade |-> Some(S_websocket), accept |-> Some(derive_accept_key(Unwrap(Get(req.key)))),
   body |-> <<>>]

PlainMsg(status, body) ==
  [kind |-> "Response", status |-> status, version |-> HTTP_11, connection |-> None, upgrade |-> None,
   accept |-> None, body |-> body]

\* lines 190-217
PlainResponseOf(http_content, path, index_path) ==
  IF ~StartsWithSlash(path) THEN PlainMsg(400, S_BadRequest)
  ELSE LET rel == SubSeq(path, 2, Len(path))
           dir == StripTrailing(rel)
       IN IF IsSome(get_http_content(http_content, rel))
          THEN PlainMsg(200, Unwrap(get_http_content(http_content, rel)))
          ELSE IF IsSome(get_http_content(http_content, index_path))
          THEN PlainMsg(200, Unwrap(get_http_content(http_content, index_path)))
          ELSE PlainMsg(404, S_FileNotFound \o dir)

PlainResponse(http_content, path) ==
  PlainResponseOf(http_content, path, IndexPath(StripTrailing(SubSeq(path, 2, Len(path)))))

(***************************************************************************)
(* WebSocket messages                                                      *)
(***************************************************************************)
\* std::str::from_utf8 succeeds: the bytes from position i on are well-formed UTF-8
RECURSIVE Utf8From(_, _)
Utf8From(s, i) ==
  LET Cont(k) == k <= Len(s) /\ s[k] >= 128 /\ s[k] <= 191 IN
  IF i > Len(s) THEN TRUE
  ELSE IF s[i] < 128 THEN Utf8From(s, i + 1)
  ELSE IF s[i] >= 194 /\ s[i] <= 223 THEN Cont(i + 1) /\ Utf8From(s, i + 2)
  ELSE IF s[i] >= 224 /\ s[i] <= 239
       THEN /\ Cont(i + 1) /\ Cont(i + 2)
            /\ (s[i] = 224 => s[i + 1] >= 160)
            /\ (s[i] = 237 => s[i + 1] <= 159)
            /\ Utf8From(s, i + 3)
  ELSE IF s[i] >= 240 /\ s[i] <= 244
       THEN /\ Cont(i + 1) /\ Cont(i + 2) /\ Cont(i + 3)
            /\ (s[i] = 240 => s[i + 1] >= 144)
            /\ (s[i] = 244 => s[i + 1] <= 143)
            /\ Utf8From(s, i + 4)
  ELSE FALSE

IsUtf8(s) == Utf8From(s, 1)

\* the messages a client sends: kind and payload (for Close, the reason)
ClientMsgs == {
  [kind |-> "Text", data |-> <<104>>],
  [kind |-> "Binary", data |-> <<195, 169>>],
  [kind |-> "Binary", data |-> <<255>>],
  [kind |-> "Ping", data |-> <<>>],
  [kind |-> "Close", data |-> <<>>] }

\* tungstenite's Message::to_text: Ok(text) or Err(Utf8)
to_text(msg) ==
  IF msg.kind \in {"Text", "Close"} THEN Some(msg.data)
  ELSE IF IsUtf8(msg.data) THEN Some(msg.data)
  ELSE None

\* one element of a positive read batch
ReadItems == [data : {<<104>>}, oob : {0, 1}]

RECURSIVE SeqsOfLen(_, _)
SeqsOfLen(S, n) ==
  IF n = 0 THEN {<<>>} ELSE {Append(q, x) : q \in SeqsOfLen(S, n - 1), x \in S}

\* the values wardenclyffe_read returns: a count and, when positive, that many reads
ReadResults(maxn) ==
  {[count |-> -1, reads |-> <<>>], [count |-> 0, reads |-> <<>>]}
  \cup UNION {{[count |-> n, reads |-> q] : q \in SeqsOfLen(ReadItems, n)} : n \in 1..maxn}

\* the oob flag ignored
MessageOf_AllBinary(read) == [kind |-> "Binary", data |-> read.data]

\* lines 102-107: the message built from one read
MessageOf(read) ==
  IF read.oob # 0 THEN [kind |-> "Text", data |-> read.data]
  ELSE [kind |-> "Binary", data |-> read.data]

CloseMsg(code, reason) == [kind |-> "Close", code |-> code, data |-> reason]

(***************************************************************************)
(* State                                                                   *)
(***************************************************************************)
NoReq == [method |-> "-"]
NoResp == [status |-> 0]
NULL == 0
Handles == {1, 2}

NoMsg == [kind |-> "None", data |-> <<>>]

NoCalls == [create |-> 0, supports_read |-> 0, supports_write |-> 0, read |-> 0,
            write |-> 0, destroy |-> 0, close |-> 0]

VARIABLES
  http_content,  \* config.http_content: the content source
  req,           \* per connection: the parsed request, NoReq when none arrived
  conn,          \* per connection: "none", "request", "respond", "upgraded", "served", "closed"
  resp,          \* per connection: the response handle_request returned
  wire,          \* per connection: what the server has written to the client, in order
  task,          \* per connection: position of the task spawned at line 163
  socket,        \* per connection: wardenclyffe_socket (NULL when create failed)
  caps,          \* per connection: supports_read and supports_write as queried
  inPc,          \* per connection: position of the inbound pump (lines 45-68)
  outPc,         \* per connection: position of the task spawned at line 70
  cur,           \* per connection: bytes of the write call in progress
  msg,           \* per connection: the message the closure of line 45 is working on
  c_path,        \* per connection: the path handed to wardenclyffe_create_socket, if called
  rd,            \* per connection: the last value wardenclyffe_read returned, reads left to send
  calls,         \* per connection: number of calls made to each endpoint function
  client,        \* per connection: messages the client has sent so far
  budget,        \* per connection: messages the client will send, reads and batch size the endpoint serves
  live           \* the handles the endpoint provider has created and not destroyed

vars == <<http_content, req, conn, resp, wire, task, socket, caps, inPc, outPc, cur, msg,
          c_path, rd, calls, client, budget, live>>

\* GET /path HTTP/1.1 with the handshake headers of RFC 6455
UpgradeRequest(path) ==
  [method |-> "GET", version |-> HTTP_11, connection |-> <<S_Upgrade>>,
   upgrade |-> <<S_websocket>>, ws_version |-> <<S_13>>, key |-> <<<<65>>>>, path |-> path]

InitCommon ==
  /\ resp = [c \in Conns |-> NoResp]
  /\ wire = [c \in Conns |-> <<>>]
  /\ task = [c \in Conns |-> "none"]
  /\ socket = [c \in Conns |-> NULL]
  /\ caps = [c \in Conns |-> [r |-> FALSE, w |-> FALSE]]
  /\ inPc = [c \in Conns |-> "none"]
  /\ outPc = [c \in Conns |-> "none"]
  /\ cur = [c \in Conns |-> <<>>]
  /\ msg = [c \in Conns |-> NoMsg]
  /\ c_path = [c \in Conns |-> None]
  /\ rd = [c \in Conns |-> [count |-> 0, reads |-> <<>>]]
  /\ calls = [c \in Conns |-> NoCalls]
  /\ client = [c \in Conns |-> 0]
  /\ live = {}

Bump(c, f) == [calls EXCEPT ![c][f] = @ + 1]

(***************************************************************************)
(* Request dispatcher                                                      *)
(***************************************************************************)
\* handle_request, lines 137-218: the response, and the task spawned at line 163
HandleRequest(c) ==
  /\ conn[c] = "request"
  /\ IF IsUpgrade(req[c])
     THEN /\ resp' = [resp EXCEPT ![c] = UpgradeResponse(req[c])]
          /\ task' = [task EXCEPT ![c] = "upgrade_on"]
     ELSE /\ resp' = [resp EXCEPT ![c] = PlainResponse(http_content, req[c].path)]
          /\ task' = task
  /\ conn' = [conn EXCEPT ![c] = "respond"]
  /\ UNCHANGED <<http_content, req, wire, socket, caps, inPc, outPc, cur, msg, c_path, rd, calls, client, budget, live>>

\* hyper writes the returned response to the client; a 101 upgrades the connection
Respond(c) ==
  /\ conn[c] = "respond"
  /\ wire' = [wire EXCEPT ![c] = Append(@, resp[c])]
  /\ conn' = [conn EXCEPT ![c] = IF resp[c].status = 101 THEN "upgraded" ELSE "served"]
  /\ UNCHANGED <<http_content, req, resp, task, socket, caps, inPc, outPc, cur, msg, c_path, rd, calls, client, budget, live>>

\* the client goes away before the response is written
Disconnect(c) ==
  /\ conn[c] = "respond"
  /\ conn' = [conn EXCEPT ![c] = "closed"]
  /\ UNCHANGED <<http_content, req, resp, wire, task, socket, caps, inPc, outPc, cur, msg, c_path, rd, calls, client, budget, live>>

UpgradeOn_Early(c) ==
  /\ task[c] = "upgrade_on"
  /\ conn[c] \in {"respond", "upgraded"}
  /\ task' = [task EXCEPT ![c] = "create"]
  /\ UNCHANGED <<http_content, req, conn, resp, wire, socket, caps, inPc, outPc, cur, msg, c_path, rd, calls, client, budget, live>>

\* line 164, Ok: hyper::upgrade::on resolves once the 101 response has been written
UpgradeOn(c) ==
  /\ task[c] = "upgrade_on"
  /\ conn[c] = "upgraded"
  /\ task' = [task EXCEPT ![c] = "create"]
  /\ UNCHANGED <<http_content, req, conn, resp, wire, socket, caps, inPc, outPc, cur, msg, c_path, rd, calls, client, budget, live>>

\* lines 164 and 176, Err: the connection ended without an upgrade
UpgradeErr(c) ==
  /\ task[c] = "upgrade_on"
  /\ conn[c] = "closed"
  /\ task' = [task EXCEPT ![c] = "upgrade_err"]
  /\ UNCHANGED <<http_content, req, conn, resp, wire, socket, caps, inPc, outPc, cur, msg, c_path, rd, calls, client, budget, live>>

(***************************************************************************)
(* Socket bridge                                                           *)
(***************************************************************************)
CreateSocket_NoCheck(c) ==
  /\ task[c] = "create"
  /\ \E h \in {NULL} \cup (Handles \ live) :
       /\ socket' = [socket EXCEPT ![c] = h]
       /\ live' = IF h = NULL THEN live ELSE live \cup {h}
  /\ task' = [task EXCEPT ![c] = "setup"]
  /\ calls' = Bump(c, "create")
  /\ c_path' = [c_path EXCEPT ![c] = Some(req[c].path)]
  /\ UNCHANGED <<http_content, req, conn, resp, wire, caps, inPc, outPc, cur, msg, rd, client, budget>>

\* lines 34-39: wardenclyffe_create_socket returns NULL or a handle not in use;
\* NULL makes handle_websocket bail
CreateSocket(c) ==
  /\ task[c] = "create"
  /\ \E h \in {NULL} \cup (Handles \ live) :
       /\ socket' = [socket EXCEPT ![c] = h]
       /\ live' = IF h = NULL THEN live ELSE live \cup {h}
       /\ task' = [task EXCEPT ![c] = IF h = NULL THEN "failed" ELSE "setup"]
  /\ calls' = Bump(c, "create")
  /\ c_path' = [c_path EXCEPT ![c] = Some(req[c].path)]
  /\ UNCHANGED <<http_content, req, conn, resp, wire, caps, inPc, outPc, cur, msg, rd, client, budget>>

\* the outbound task reads whatever supports_read said
Setup_AlwaysRead(c) ==
  /\ task[c] = "setup"
  /\ \E r \in BOOLEAN, w \in BOOLEAN :
       /\ caps' = [caps EXCEPT ![c] = [r |-> r, w |-> w]]
       /\ outPc' = [outPc EXCEPT ![c] = "read"]
  /\ calls' = [calls EXCEPT ![c].supports_read = @ + 1, ![c].supports_write = @ + 1]
  /\ inPc' = [inPc EXCEPT ![c] = "polling"]
  /\ task' = [task EXCEPT ![c] = "select"]
  /\ UNCHANGED <<http_content, req, conn, resp, wire, socket, cur, msg, c_path, rd, client, budget, live>>

\* the capabilities are queried a second time
Setup_Requery(c) ==
  /\ task[c] = "setup"
  /\ \E r \in BOOLEAN, w \in BOOLEAN :
       /\ caps' = [caps EXCEPT ![c] = [r |-> r, w |-> w]]
       /\ outPc' = [outPc EXCEPT ![c] = IF r THEN "read" ELSE "pending"]
  /\ calls' = [calls EXCEPT ![c].supports_read = @ + 2, ![c].supports_write = @ + 2]
  /\ inPc' = [inPc EXCEPT ![c] = "polling"]
  /\ task' = [task EXCEPT ![c] = "select"]
  /\ UNCHANGED <<http_content, req, conn, resp, wire, socket, cur, msg, c_path, rd, client, budget, live>>

\* lines 41-70: query both capabilities, build the inbound pump, spawn the outbound task
Setup(c) ==
  /\ task[c] = "setup"
  /\ \E r \in BOOLEAN, w \in BOOLEAN :
       /\ caps' = [caps EXCEPT ![c] = [r |-> r, w |-> w]]
       /\ outPc' = [outPc EXCEPT ![c] = IF r THEN "read" ELSE "pending"]
  /\ calls' = [calls EXCEPT ![c].supports_read = @ + 1, ![c].supports_write = @ + 1]
  /\ inPc' = [inPc EXCEPT ![c] = "polling"]
  /\ task' = [task EXCEPT ![c] = "select"]
  /\ UNCHANGED <<http_content, req, conn, resp, wire, socket, cur, msg, c_path, rd, client, budget, live>>

\* lines 45-68, one message: the closure of try_for_each up to the write call.
\* unwrap() of a failed to_text panics the task (line 46).
Receive(c) ==
  /\ task[c] = "select"
  /\ inPc[c] = "polling"
  /\ client[c] < budget[c].msgs
  /\ \E m \in ClientMsgs :
       /\ client' = [client EXCEPT ![c] = IF m.kind = "Close" THEN budget[c].msgs ELSE @ + 1]
       /\ IF ~IsSome(to_text(m))
          THEN /\ inPc' = [inPc EXCEPT ![c] = "panicked"]
               /\ task' = [task EXCEPT ![c] = "panicked"]
               /\ msg' = [msg EXCEPT ![c] = m]
               /\ UNCHANGED <<cur, calls>>
          ELSE IF caps[c].w
          THEN /\ inPc' = [inPc EXCEPT ![c] = "writing"]
               /\ cur' = [cur EXCEPT ![c] = Unwrap(to_text(m))]
               /\ msg' = [msg EXCEPT ![c] = m]
               /\ calls' = Bump(c, "write")
               /\ task' = task
          ELSE /\ UNCHANGED <<inPc, task, cur, msg, calls>>
  /\ UNCHANGED <<http_content, c_path, req, conn, resp, wire, socket, caps, outPc, rd, budget, live>>

\* lines 59-63: wardenclyffe_write returns; false ends the pump with an error
WriteReturn(c) ==
  /\ task[c] = "select"
  /\ inPc[c] = "writing"
  /\ \E ok \in BOOLEAN : inPc' = [inPc EXCEPT ![c] = IF ok THEN "polling" ELSE "err"]
  /\ cur' = [cur EXCEPT ![c] = <<>>]
  /\ msg' = [msg EXCEPT ![c] = NoMsg]
  /\ UNCHANGED <<http_content, c_path, req, conn, resp, wire, task, socket, caps, outPc, rd, calls, client, budget, live>>

\* line 45: the inbound stream ends (the client closed) or fails
StreamEnd(c) ==
  /\ task[c] = "select"
  /\ inPc[c] = "polling"
  /\ \E r \in {"ok", "err"} : inPc' = [inPc EXCEPT ![c] = r]
  /\ UNCHANGED <<http_content, req, conn, resp, wire, task, socket, caps, outPc, cur, msg, c_path, rd, calls, client, budget, live>>

\* lines 73-77: the outbound task starts a read on the blocking pool
ReadBegin(c) ==
  /\ outPc[c] = "read"
  /\ calls[c].read < budget[c].reads
  /\ outPc' = [outPc EXCEPT ![c] = "reading"]
  /\ calls' = Bump(c, "read")
  /\ UNCHANGED <<http_content, req, conn, resp, wire, task, socket, caps, inPc, cur, msg, c_path, rd, client, budget, live>>

\* lines 74-99: wardenclyffe_read returns
ReadReturn(c) ==
  /\ outPc[c] = "reading"
  /\ \E r \in ReadResults(budget[c].batch) :
       /\ rd' = [rd EXCEPT ![c] = r]
       /\ outPc' = [outPc EXCEPT ![c] = IF r.count <= 0 THEN "close" ELSE "sending"]
  /\ UNCHANGED <<http_content, req, conn, resp, wire, task, socket, caps, inPc, cur, msg, c_path, calls, client, budget, live>>

\* lines 79-97: send one Close frame, whose result is ignored, and return
SendClose(c) ==
  /\ outPc[c] = "close"
  /\ \E ok \in BOOLEAN :
       wire' = [wire EXCEPT ![c] =
                  IF ok THEN Append(@, CloseMsg(IF rd[c].count < 0 THEN "Error" ELSE "Normal", <<>>))
                  ELSE @]
  /\ calls' = Bump(c, "close")
  /\ outPc' = [outPc EXCEPT ![c] = "done"]
  /\ UNCHANGED <<http_content, req, conn, resp, task, socket, caps, inPc, cur, msg, c_path, rd, client, budget, live>>

\* lines 100-112: send the next read of the batch; a failed send returns
SendRead(c) ==
  /\ outPc[c] = "sending"
  /\ \E ok \in BOOLEAN :
       IF ok
       THEN /\ wire' = [wire EXCEPT ![c] = Append(@, MessageOf(Head(rd[c].reads)))]
            /\ rd' = [rd EXCEPT ![c].reads = Tail(@)]
            /\ outPc' = [outPc EXCEPT ![c] = IF Len(rd[c].reads) = 1 THEN "read" ELSE "sending"]
       ELSE /\ outPc' = [outPc EXCEPT ![c] = "done"]
            /\ UNCHANGED <<wire, rd>>
  /\ UNCHANGED <<http_content, req, conn, resp, task, socket, caps, inPc, cur, msg, c_path, calls, client, budget, live>>

\* select at line 120 is ready: the inbound pump returned, or it is pending
\* and the outbound task has finished
SelectReady(c) ==
  /\ task[c] = "select"
  /\ \/ inPc[c] \in {"ok", "err"}
     \/ inPc[c] = "polling" /\ outPc[c] = "done"

Teardown_Again(c) ==
  /\ socket[c] # NULL
  /\ task[c] \in {"select", "done"}
  /\ \/ inPc[c] \in {"ok", "err"}
     \/ inPc[c] = "polling" /\ outPc[c] = "done"
  /\ calls' = Bump(c, "destroy")
  /\ live' = live \ {socket[c]}
  /\ task' = [task EXCEPT ![c] = "done"]
  /\ UNCHANGED <<http_content, req, conn, resp, wire, socket, caps, inPc, outPc, cur, msg, c_path, rd, client, budget>>

Teardown_All(c) ==
  /\ SelectReady(c)
  /\ calls' = Bump(c, "destroy")
  /\ live' = {}
  /\ task' = [task EXCEPT ![c] = "done"]
  /\ UNCHANGED <<http_content, req, conn, resp, wire, socket, caps, inPc, outPc, cur, msg, c_path, rd, client, budget>>

\* lines 120-127: once select is ready, destroy the endpoint and return
Teardown(c) ==
  /\ SelectReady(c)
  /\ calls' = Bump(c, "destroy")
  /\ live' = live \ {socket[c]}
  /\ task' = [task EXCEPT ![c] = "done"]
  /\ UNCHANGED <<http_content, req, conn, resp, wire, socket, caps, inPc, outPc, cur, msg, c_path, rd, client, budget>>

Next ==
  \E c \in Conns :
    \/ HandleRequest(c)
    \/ Respond(c)
    \/ Disconnect(c)
    \/ UpgradeOn(c)
    \/ UpgradeErr(c)
    \/ CreateSocket(c)
    \/ Setup(c)
    \/ Receive(c)
    \/ WriteReturn(c)
    \/ StreamEnd(c)
    \/ ReadBegin(c)
    \/ ReadReturn(c)
    \/ SendClose(c)
    \/ SendRead(c)
    \/ Teardown(c)

\* one connection with a WebSocket handshake; the other never connects
Init ==
  /\ InitCommon
  /\ http_content = {<<S_index_html, B_idx>>}
  /\ req = [c \in Conns |-> IF c = 1 THEN UpgradeRequest(<<Slash, 97>>) ELSE NoReq]
  /\ conn = [c \in Conns |-> IF c = 1 THEN "request" ELSE "none"]
  /\ budget = [c \in Conns |-> [msgs |-> MaxMsgs, reads |-> MaxReads, batch |-> MaxBatch]]

Spec == Init /\ [][Next]_vars

\* two connections at once, each with a WebSocket handshake for its own path;
\* the second client sends one message and its endpoint has nothing to read
InitPair ==
  /\ InitCommon
  /\ http_content = {<<S_index_html, B_idx>>}
  /\ req = [c \in Conns |-> UpgradeRequest(<<Slash, 96 + c>>)]
  /\ conn = [c \in Conns |-> "request"]
  /\ budget = [c \in Conns |->
                 IF c = 1 THEN [msgs |-> PairMsgs, reads |-> PairReads, batch |-> PairBatch]
                 ELSE [msgs |-> 1, reads |-> 0, batch |-> 0]]

SpecPair == InitPair /\ [][Next]_vars

\* the dispatcher alone: one request of any shape on the first connection
NextDispatch == \E c \in Conns : HandleRequest(c)

InitDispatch ==
  /\ InitCommon
  /\ http_content \in Contents
  /\ \E r \in Requests : req = [c \in Conns |-> IF c = 1 THEN r ELSE NoReq]
  /\ conn = [c \in Conns |-> IF c = 1 THEN "request" ELSE "none"]
  /\ budget = [c \in Conns |-> [msgs |-> 0, reads |-> 0, batch |-> 0]]

SpecDispatch == InitDispatch /\ [][NextDispatch]_vars

(***************************************************************************)
(* Properties                                                              *)
(***************************************************************************)
\* handle_request has returned for connection c
Handled(c) == conn[c] = "respond"

\* a header value has a piece equal to tok, ignoring ASCII case, that is
\* bounded on each side by the value's end, a space or a comma
HasToken(v, tok) ==
  \E i \in 1..Len(v) : \E j \in i..Len(v) :
    /\ EqIgnoreAsciiCase(SubSeq(v, i, j), tok)
    /\ (i = 1 \/ v[i - 1] \in {Space, Comma})
    /\ (j = Len(v) \/ v[j + 1] \in {Space, Comma})

\* the upgrade predicate as the specification words it
UpgradePredicate(r) ==
  /\ r.method = "GET"
  /\ r.version >= HTTP_11
  /\ \E k \in 1..Len(r.connection) : HasToken(r.connection[k], S_upgrade)
  /\ Len(r.upgrade) > 0 /\ EqIgnoreAsciiCase(r.upgrade[1], S_websocket)
  /\ Len(r.ws_version) > 0 /\ r.ws_version[1] = S_13
  /\ Len(r.key) > 0

\* the accept value of RFC 6455 for a key
StandardAccept(key) ==
  [enc |-> "base64", digest |-> [alg |-> "sha1", input |-> key \o WS_GUID]]

\* C1: handle_request answers 101 exactly when the upgrade predicate holds;
\* the 101 response carries Connection: Upgrade, Upgrade: websocket, the
\* request's version and the standard accept value of the key, and a request
\* that fails the predicate gets no 101 and no spawned task.
C1_UpgradeIffPredicate ==
  \A c \in Conns : Handled(c) =>
    /\ (resp[c].status = 101) <=> UpgradePredicate(req[c])
    /\ resp[c].status = 101 =>
         /\ resp[c].connection = Some(S_Upgrade)
         /\ resp[c].upgrade = Some(S_websocket)
         /\ resp[c].version = req[c].version
         /\ resp[c].accept = Some(StandardAccept(req[c].key[1]))
    /\ resp[c].status # 101 => task[c] = "none"

\* the messages of the bridge that have reached the client of c
Bridged(c) == {i \in 1..Len(wire[c]) : wire[c][i].kind # "Response"}

\* C2: on one connection the 101 response is written to the client before
\* the first create, read or write call on the endpoint and before any
\* bridged WebSocket message.
C2_ResponseBeforeBridge ==
  \A c \in Conns :
    (calls[c].create > 0 \/ calls[c].read > 0 \/ calls[c].write > 0 \/ Bridged(c) # {}) =>
      /\ Len(wire[c]) > 0
      /\ wire[c][1].kind = "Response"
      /\ wire[c][1].status = 101

C2_Witness ==
  \E c \in Conns : calls[c].read > 0 /\ calls[c].write > 0 /\ Bridged(c) # {}

\* the task running handle_websocket for c is over, by return or by panic
BridgeOver(c) == task[c] \in {"done", "panicked"}

\* C3: for a bridge whose endpoint was created, once a pump has terminated
\* and the bridge task is over, the endpoint has been destroyed exactly once.
C3_DestroyedOnceAfterTermination ==
  \A c \in Conns :
    (socket[c] # NULL /\ BridgeOver(c) /\ (inPc[c] \in {"ok", "err", "panicked"} \/ outPc[c] = "done"))
      => calls[c].destroy = 1

\* C4: at most one destroy call is issued for the endpoint of a bridge.
C4_DestroyAtMostOnce == \A c \in Conns : calls[c].destroy <= 1

C4_Witness ==
  \E c \in Conns : calls[c].destroy = 1 /\ outPc[c] = "reading" /\ inPc[c] = "err"

\* the part of the state that belongs to connection d
StateOf(d) ==
  <<req[d], conn[d], resp[d], wire[d], task[d], socket[d], caps[d], inPc[d], outPc[d],
    cur[d], msg[d], c_path[d], rd[d], calls[d], client[d]>>

\* C5: when create returns a null handle, handle_websocket fails for that
\* connection: no supports_read, supports_write, read, write or destroy call
\* is ever made for it and no pump starts; the failing step changes nothing
\* of any other connection.
C5_NullHandleAborts ==
  /\ [](\A c \in Conns : (calls[c].create > 0 /\ socket[c] = NULL) =>
          /\ task[c] = "failed"
          /\ calls[c] = [NoCalls EXCEPT !.create = 1]
          /\ inPc[c] = "none" /\ outPc[c] = "none"
          /\ Bridged(c) = {})
  /\ [][\A c \in Conns : (task[c] = "create" /\ task'[c] = "failed") =>
          /\ live' = live
          /\ \A d \in Conns \ {c} : StateOf(d)' = StateOf(d)]_vars

C5_Witness ==
  \E c \in Conns : \E d \in Conns \ {c} :
    task[c] = "failed" /\ task[d] = "done" /\ calls[d].read > 0 /\ calls[d].write > 0

\* C6: when the endpoint supports reads and a read returned a count that is
\* not positive, the outbound pump has sent exactly one Close frame and
\* stopped, and once the bridge task is over the endpoint has been
\* destroyed exactly once.
C6_CloseThenDestroyedOnce ==
  \A c \in Conns :
    (caps[c].r /\ outPc[c] = "done" /\ rd[c].count <= 0 /\ BridgeOver(c)) =>
      /\ calls[c].close = 1
      /\ calls[c].destroy = 1

\* C7: while supports_write is false, a message from the client causes no
\* write call, does not fail or end the inbound pump and leaves the bridge
\* running, whatever the message.
C7_UnwritableMessagesDiscarded ==
  [][\A c \in Conns :
      (task[c] = "select" /\ ~caps[c].w /\ client'[c] # client[c]) =>
        /\ calls'[c].write = 0
        /\ inPc'[c] = "polling"
        /\ task'[c] = "select"]_vars

\* the bridge of c holds a created endpoint that it has not destroyed
Bridging(c) == task[c] \in {"setup", "select", "panicked"} /\ socket[c] # NULL

\* connection c ends a pump or destroys its endpoint in this step
Terminates(c) ==
  \/ calls'[c].destroy # calls[c].destroy
  \/ inPc'[c] # inPc[c] /\ inPc'[c] \in {"ok", "err", "panicked"}
  \/ outPc'[c] # outPc[c] /\ outPc'[c] = "done"

\* C8: two connections upgraded at once hold different endpoint handles, and
\* a step in which one bridge ends a pump or destroys its endpoint leaves the
\* other bridge's handle, pumps, calls and results as they were.
C8_BridgesIndependent ==
  /\ [](\A c \in Conns : \A d \in Conns \ {c} :
          (Bridging(c) /\ Bridging(d)) =>
            socket[c] # socket[d] /\ socket[c] \in live /\ socket[d] \in live)
  /\ [][\A c \in Conns : Terminates(c) =>
          \A d \in Conns \ {c} :
            /\ StateOf(d)' = StateOf(d)
            /\ (Bridging(d) => socket[d] \in live')]_vars

C8_Witness ==
  \E c \in Conns : \E d \in Conns \ {c} :
    /\ task[c] = "done" /\ calls[c].destroy = 1
    /\ task[d] = "select" /\ socket[d] \in live /\ calls[d].read > 0 /\ calls[d].write > 0

\* C9 as first stated: every path that does not start with '/' gets 400.
C9_Original ==
  \A c \in Conns : (Handled(c) /\ ~StartsWithSlash(req[c].path)) => resp[c].status = 400

\* C9: a request that is not answered with 101 and whose path does not start
\* with '/' gets 400 Bad Request.
C9_PlainNonAbsoluteIs400 ==
  \A c \in Conns :
    (Handled(c) /\ resp[c].status # 101 /\ (req[c].path = <<>> \/ req[c].path[1] # Slash)) =>
      /\ resp[c].status = 400
      /\ resp[c].body = S_BadRequest

C9_Witness ==
  \E c \in Conns : Handled(c) /\ req[c].path = <<Star>> /\ resp[c].status = 400

\* C10: with a content source that holds index.html and nothing else, a
\* plain request for '/' gets 200 with the bytes of index.html.
C10_RootServesIndex ==
  \A c \in Conns :
    (Handled(c) /\ resp[c].status # 101 /\ req[c].path = <<Slash>>
       /\ http_content = {<<S_index_html, B_idx>>}) =>
      /\ resp[c].status = 200
      /\ resp[c].body = B_idx

\* the files of the content source stored under the relative path p
FilesAt(p) == { f \in http_content : f[1] = p }

\* rel without its trailing slashes
WithoutTrailingSlashes(rel) ==
  LET k == CHOOSE n \in 0..Len(rel) :
             /\ \A i \in (n + 1)..Len(rel) : rel[i] = Slash
             /\ (n = 0 \/ rel[n] # Slash)
  IN SubSeq(rel, 1, k)

\* C11: a plain request with an absolute path is looked up first under the
\* path minus its leading slash, then under that path without its trailing
\* slashes plus "/index.html"; the answer is 200 with the bytes of the first
\* lookup that succeeds, and 404 with a body naming the path without leading
\* and trailing slashes when both fail.
C11_LookupThenIndexThen404 ==
  \A c \in Conns :
    (Handled(c) /\ resp[c].status # 101 /\ Len(req[c].path) > 0 /\ req[c].path[1] = Slash) =>
      LET rel == Tail(req[c].path)
          dir == WithoutTrailingSlashes(rel)
          idx == dir \o <<Slash>> \o S_index_html
      IN /\ FilesAt(rel) # {} =>
              resp[c].status = 200 /\ \E f \in FilesAt(rel) : resp[c].body = f[2]
         /\ (FilesAt(rel) = {} /\ FilesAt(idx) # {}) =>
              resp[c].status = 200 /\ \E f \in FilesAt(idx) : resp[c].body = f[2]
         /\ (FilesAt(rel) = {} /\ FilesAt(idx) = {}) =>
              resp[c].status = 404 /\ resp[c].body = S_FileNotFound \o dir

\* /foo/ with neither foo/ nor foo/index.html in the source: 404 naming foo
C11_Witness ==
  \E c \in Conns :
    /\ Handled(c) /\ req[c].path = <<Slash>> \o S_foo \o <<Slash>>
    /\ FilesAt(S_foo \o <<Slash>>) = {} /\ FilesAt(P_foo_index) = {}
    /\ resp[c].status = 404 /\ resp[c].body = S_FileNotFound \o S_foo

\* the inbound pump of c is inside wardenclyffe_write (server.rs:53)
WriteInFlight(c) == inPc[c] = "writing"

\* the outbound task of c is inside wardenclyffe_read (server.rs:74)
ReadInFlight(c) == outPc[c] = "reading"

\* C12: no two calls among read, write and destroy are in progress on the
\* same handle at the same time: a write and a read are never both in
\* flight, and destroy is never called while a read or a write is in flight.
C12_HandleNeverUsedConcurrently ==
  /\ [](\A c \in Conns : ~(WriteInFlight(c) /\ ReadInFlight(c)))
  /\ [][\A c \in Conns :
          calls'[c].destroy > calls[c].destroy =>
            ~ReadInFlight(c) /\ ~WriteInFlight(c)]_vars

\* the bridge of c has terminated and its inbound pump had finished
TerminatedByInbound(c) == task[c] = "done" /\ inPc[c] \in {"ok", "err"}

\* C13: once a bridge has terminated because its inbound pump finished, the
\* outbound pump does nothing more: no message is sent to the client and no
\* read is started.
C13_AbandonedPumpDoesNothing ==
  [][\A c \in Conns :
       TerminatedByInbound(c) =>
         /\ wire'[c] = wire[c]
         /\ calls'[c].read = calls[c].read]_vars

\* C14: no read or write call is started on a handle after destroy has been
\* called on it.
C14_NoCallAfterDestroy ==
  [][\A c \in Conns :
       calls[c].destroy > 0 =>
         /\ calls'[c].read = calls[c].read
         /\ calls'[c].write = calls[c].write]_vars

\* the pumps of c were started on an endpoint that does not support reads
StartedWithoutReads(c) == task[c] \in {"select", "done", "panicked"} /\ ~caps[c].r

\* C15: if the endpoint does not support reads, the outbound pump never calls
\* read, never sends anything to the client and never completes, and the
\* bridge is over only when its inbound pump is over.
C15_NoReadsPumpIsIdle ==
  \A c \in Conns :
    StartedWithoutReads(c) =>
      /\ calls[c].read = 0
      /\ Bridged(c) = {} /\ calls[c].close = 0
      /\ outPc[c] = "pending"
      /\ (task[c] = "done" => inPc[c] \in {"ok", "err"})
      /\ (task[c] = "panicked" => inPc[c] = "panicked")

\* a bridge without reads that took a client message and ended on a failed write
C15_Witness ==
  \E c \in Conns :
    /\ StartedWithoutReads(c) /\ task[c] = "done" /\ inPc[c] = "err"
    /\ calls[c].write > 0 /\ calls[c].destroy = 1

\* the inbound pump of c takes a message from the client in this step
Receives(c) == client'[c] # client[c]

\* C16: if the endpoint supports writes, every text or binary message from
\* the client, valid UTF-8 or not, starts exactly one write call carrying
\* exactly the bytes of the message, the next message being taken only when
\* that write has returned; a write that returns false ends the pump with an
\* error, no write follows it, and the bridge then destroys the endpoint.
C16_EveryMessageWrittenOnce ==
  /\ [][\A c \in Conns :
          (Receives(c) /\ caps[c].w /\ msg'[c].kind \in {"Text", "Binary"}) =>
            /\ inPc[c] = "polling" /\ inPc'[c] = "writing"
            /\ calls'[c].write = calls[c].write + 1
            /\ cur'[c] = msg'[c].data]_vars
  /\ [][\A c \in Conns :
          inPc[c] = "err" => calls'[c].write = calls[c].write /\ inPc'[c] = "err"]_vars
  /\ [](\A c \in Conns : (task[c] = "done" /\ inPc[c] = "err") => calls[c].destroy = 1)

\* the outbound pump of c moves in this step
OutboundStep(c) == outPc'[c] # outPc[c] \/ rd'[c] # rd[c]

\* C17: a read that returns n > 0 leaves the n reads of the batch to be sent;
\* each send puts the first unsent read on the wire, as Text if it is flagged
\* out-of-band and as Binary otherwise, with its bytes; the next read is
\* issued only when the whole batch has been sent; a failed send ends the
\* pump with the rest of the batch unsent, and no read follows.
C17_BatchSentInOrder ==
  /\ [](\A c \in Conns :
          outPc[c] = "sending" =>
            /\ rd[c].count > 0 /\ Len(rd[c].reads) \in 1..rd[c].count)
  /\ [][\A c \in Conns :
          (outPc[c] = "reading" /\ OutboundStep(c) /\ rd'[c].count > 0) =>
            /\ outPc'[c] = "sending"
            /\ Len(rd'[c].reads) = rd'[c].count
            /\ wire'[c] = wire[c]]_vars
  /\ [][\A c \in Conns :
          (outPc[c] = "sending" /\ OutboundStep(c)) =>
            LET read == rd[c].reads[1]
                sent == [kind |-> IF read.oob = 0 THEN "Binary" ELSE "Text", data |-> read.data]
            IN \/ /\ wire'[c] = wire[c] \o <<sent>>
                  /\ rd'[c].reads = SubSeq(rd[c].reads, 2, Len(rd[c].reads))
                  /\ outPc'[c] = IF rd'[c].reads = <<>> THEN "read" ELSE "sending"
                  /\ calls'[c].read = calls[c].read
               \/ /\ wire'[c] = wire[c]
                  /\ outPc'[c] = "done"
                  /\ calls'[c].read = calls[c].read]_vars
  /\ [][\A c \in Conns :
          calls'[c].read # calls[c].read =>
            /\ outPc[c] = "read"
            /\ (rd[c].count > 0 => rd[c].reads = <<>>)]_vars
  /\ [][\A c \in Conns : outPc[c] = "done" => outPc'[c] = "done"]_vars

\* a batch of two, out-of-band first, was sent as Text then Binary and the
\* next read was issued
C17_Witness ==
  \E c \in Conns : \E i \in 1..Len(wire[c]) - 1 :
    /\ rd[c].count = 2 /\ rd[c].reads = <<>> /\ outPc[c] = "reading" /\ calls[c].read = 2
    /\ wire[c][i].kind = "Text" /\ wire[c][i + 1].kind = "Binary" /\ i + 1 = Len(wire[c])

\* the endpoint calls of c in progress inside a spawn_blocking closure, on a
\* thread of the blocking pool: wardenclyffe_read (server.rs:73-77)
BlockingPoolCalls(c) == IF outPc[c] = "reading" THEN {"read"} ELSE {}

\* the endpoint calls of c in progress on a scheduler worker, called straight
\* from a future the worker polls: wardenclyffe_write, in the closure of
\* try_for_each (server.rs:52-58)
WorkerCalls(c) == IF inPc[c] = "writing" THEN {"write"} ELSE {}

\* C18: every read and write call on the endpoint runs on the blocking pool
\* and none on a scheduler worker.
C18_CallsOffTheScheduler ==
  \A c \in Conns :
    /\ ReadInFlight(c) => "read" \in BlockingPoolCalls(c)
    /\ WriteInFlight(c) => "write" \in BlockingPoolCalls(c)
    /\ WorkerCalls(c) = {}

\* C19: a ping, pong or close message taken by the inbound pump never starts
\* a write call on the endpoint.
C19_ControlMessagesNotWritten ==
  [][\A c \in Conns :
       (Receives(c) /\ msg'[c].kind \in {"Ping", "Pong", "Close"}) =>
         /\ calls'[c].write = calls[c].write
         /\ inPc'[c] # "writing"]_vars

\* the bridge of c has started its pumps
PumpsStarted(c) == task[c] \in {"select", "done", "panicked"}

\* C20: for one upgraded connection create is called at most once, with the
\* path of the request, and exactly once for a bridge whose pumps have
\* started; supports_read and supports_write are each queried exactly once,
\* on a handle that create returned and before any read or write; the two
\* capability values never change once the pumps have started.
C20_CreateAndCapabilitiesOnce ==
  /\ [](\A c \in Conns :
          /\ calls[c].create <= 1
          /\ calls[c].create = 1 <=> c_path[c] # <<>>
          /\ calls[c].create = 1 => (conn[c] = "upgraded" /\ c_path[c] = <<req[c].path>>)
          /\ calls[c].supports_read = calls[c].supports_write
          /\ calls[c].supports_read <= 1
          /\ calls[c].supports_read = 1 => (calls[c].create = 1 /\ socket[c] # NULL)
          /\ (calls[c].read > 0 \/ calls[c].write > 0) => calls[c].supports_read = 1
          /\ PumpsStarted(c) <=> calls[c].supports_read = 1)
  /\ [][\A c \in Conns :
          /\ PumpsStarted(c) => caps'[c] = caps[c]
          /\ calls'[c].supports_read # calls[c].supports_read =>
                calls[c].read = 0 /\ calls[c].write = 0]_vars

\* a bridge that read and wrote and is over, with create and both queries
\* called once
C20_Witness ==
  \E c \in Conns :
    /\ task[c] = "done" /\ calls[c].read > 0 /\ calls[c].write > 0
    /\ calls[c].create = 1 /\ calls[c].supports_read = 1 /\ calls[c].supports_write = 1
    /\ c_path[c] = <<req[c].path>> /\ caps[c] = [r |-> TRUE, w |-> TRUE]

====
